---- MODULE Spec2Model ----
(***************************************************************************)
(* Model of the reconciliation engine of src/src/match.py and of the "Run  *)
(* Matching" handler of src/src/llm_inference_app.py.                      *)
(*                                                                         *)
(* Encoding of Python values:                                              *)
(*   - an optional value (a missing dict key, or None) is Nothing == <<>>, *)
(*     a present value v is Some(v) == <<v>>;                              *)
(*   - a str is a sequence of one-character strings;                       *)
(*   - an amount is an integer number of half-micro units (5e-7), so that  *)
(*     the 1e-6 epsilon of compute_match_score is Epsilon == 2 units;      *)
(*   - a date string is a record [iso, y, m, d]: iso says whether the text *)
(*     has the YYYY-MM-DD layout, y/m/d are the numbers written in it;     *)
(*   - a raised exception is an outcome "KeyError" or "ValueError".        *)
(* Every attachment carries a "data" payload (a dict); the loaders of the  *)
(* application hand over parsed JSON of that shape.                        *)
(***************************************************************************)
EXTENDS Integers, Sequences, FiniteSets, TLC

VARIABLES
    transactions,           \* input list of transactions
    attachments,            \* input list of attachments
    used_attachment_ids,    \* match.py:15, module-level set
    used_transaction_ids,   \* match.py:16, module-level set
    matched_pairs,          \* result of the last batch run that yielded one
    unmatched_tx,
    unmatched_att,
    outcome,                \* how the last operation ended
    entry,                  \* the last operation that ran
    scan_used,              \* the registry as it was when the last batch run began scanning
    call,                   \* the last direct find_attachment / find_transaction call
    matches,                \* <<tx position, att position>> pairs returned (kept under SpecCalls)
    probe                   \* argument and results of a pure function under check

vars == <<transactions, attachments, used_attachment_ids, used_transaction_ids,
          matched_pairs, unmatched_tx, unmatched_att, outcome, entry, scan_used,
          call, matches, probe>>

-----------------------------------------------------------------------------
(* Bounds of the model *)

MaxTx == 2          \* longest input list of transactions
MaxAtt == 2         \* longest input list of attachments
MaxRefLen == 4      \* longest reference string given to normalize_reference

-----------------------------------------------------------------------------
(* Python values *)

Nothing == <<>>
Some(v) == <<v>>
IsSome(o) == o # Nothing
Val(o) == o[1]

\* truthiness of an optional str: None and "" are falsy
TruthyStr(o) == IsSome(o) /\ Val(o) # <<>>
\* truthiness of an optional number: None and 0 are falsy
TruthyNum(o) == IsSome(o) /\ Val(o) # 0

Abs(n) == IF n < 0 THEN -n ELSE n

Min(S) == CHOOSE x \in S : \A y \in S : x <= y

-----------------------------------------------------------------------------
(* normalize_reference, match.py:21-28 *)

\* str.replace(" ", "")
RemoveSpaces(s) == SelectSeq(s, LAMBDA c : c # " ")

\* str.replace("RF", ""): one left-to-right pass over non-overlapping occurrences
RECURSIVE RemoveRF(_)
RemoveRF(s) ==
    IF Len(s) < 2 THEN s
    ELSE IF s[1] = "R" /\ s[2] = "F" THEN RemoveRF(SubSeq(s, 3, Len(s)))
    ELSE <<s[1]>> \o RemoveRF(Tail(s))

\* str.lstrip("0")
RECURSIVE LStripZeros(_)
LStripZeros(s) ==
    IF s # <<>> /\ s[1] = "0" THEN LStripZeros(Tail(s)) ELSE s

normalize_reference(reference) ==
    IF ~TruthyStr(reference) THEN Nothing
    ELSE Some(LStripZeros(RemoveRF(RemoveSpaces(Val(reference)))))

-----------------------------------------------------------------------------
(* parse_date, match.py:30-37 *)

IsLeap(y) == (y % 4 = 0 /\ y % 100 # 0) \/ y % 400 = 0

DaysInMonth(y, m) ==
    IF m = 2 THEN (IF IsLeap(y) THEN 29 ELSE 28)
    ELSE IF m \in {4, 6, 9, 11} THEN 30 ELSE 31

RECURSIVE DaysBeforeMonth(_, _)
DaysBeforeMonth(y, m) ==
    IF m <= 1 THEN 0 ELSE DaysBeforeMonth(y, m - 1) + DaysInMonth(y, m - 1)

\* datetime.toordinal of a valid calendar date
ToOrdinal(y, m, d) ==
    LET p == y - 1
    IN  365 * p + (p \div 4) - (p \div 100) + (p \div 400) + DaysBeforeMonth(y, m) + d

\* strptime(date_str, "%Y-%m-%d") accepts the text
ValidDate(ds) ==
    /\ ds.iso
    /\ ds.y >= 1 /\ ds.y <= 9999
    /\ ds.m >= 1 /\ ds.m <= 12
    /\ ds.d >= 1 /\ ds.d <= DaysInMonth(ds.y, ds.m)

\* whether parse_date raises ValueError
parse_date_raises(date_str) == IsSome(date_str) /\ ~ValidDate(Val(date_str))

\* the parsed date, as a day number (None stays Nothing)
parse_date(date_str) ==
    IF ~IsSome(date_str) THEN Nothing
    ELSE Some(ToOrdinal(Val(date_str).y, Val(date_str).m, Val(date_str).d))

-----------------------------------------------------------------------------
(* similar_name, get_counterparty, match.py:39-65 *)

\* str.lower on the letters the model uses
LowerChar(c) ==
    CASE c = "A" -> "a"
      [] c = "B" -> "b"
      [] c = "C" -> "c"
      [] OTHER -> c

lower(s) == [i \in 1..Len(s) |-> LowerChar(s[i])]

\* Python's `needle in hay` on str
Contains(needle, hay) ==
    \E i \in 0..(Len(hay) - Len(needle)) : SubSeq(hay, i + 1, i + Len(needle)) = needle

similar_name(transaction_contact, attachment_party) ==
    IF ~TruthyStr(transaction_contact) \/ ~TruthyStr(attachment_party) THEN FALSE
    ELSE LET c == lower(Val(transaction_contact))
             p == lower(Val(attachment_party))
         IN  Contains(c, p) \/ Contains(p, c)

\* data.get("issuer") or data.get("recipient") or data.get("supplier")
get_counterparty(attachment) ==
    IF TruthyStr(attachment.issuer) THEN attachment.issuer
    ELSE IF TruthyStr(attachment.recipient) THEN attachment.recipient
    ELSE attachment.supplier

-----------------------------------------------------------------------------
(* compute_match_score, match.py:77-114 *)

Epsilon == 2        \* 1e-6, in half-micro units
AmountPoints == 3
NamePoints == 2
DatePoints == 1
DateWindow == 7
Threshold == 4

\* the exception compute_match_score raises, or "none"
score_raises(transaction, attachment) ==
    IF ~IsSome(transaction.amount) THEN "KeyError"
    ELSE IF \/ parse_date_raises(transaction.date)
            \/ parse_date_raises(attachment.due_date)
            \/ parse_date_raises(attachment.invoicing_date) THEN "ValueError"
    ELSE "none"

\* `if attachment_amount and ...`: the truth value of the attachment's total
AmountPresent(attachment_amount) == TruthyNum(attachment_amount)

amount_score(transaction, attachment) ==
    LET transaction_amount == Abs(Val(transaction.amount))
        attachment_amount == attachment.total_amount
    IN  IF /\ AmountPresent(attachment_amount)
           /\ Abs(transaction_amount - Val(attachment_amount)) < Epsilon
        THEN AmountPoints ELSE 0

name_score(transaction, attachment) ==
    IF similar_name(transaction.contact, get_counterparty(attachment))
    THEN NamePoints ELSE 0

date_score(transaction, attachment) ==
    LET transaction_date == parse_date(transaction.date)
        candidate_dates == {Val(d) : d \in {x \in {parse_date(attachment.due_date),
                                                   parse_date(attachment.invoicing_date)} :
                                             IsSome(x)}}
    IN  IF IsSome(transaction_date) /\ candidate_dates # {}
        THEN LET min_days_diff == Min({Abs(Val(transaction_date) - d) : d \in candidate_dates})
             IN  IF min_days_diff <= DateWindow THEN DatePoints ELSE 0
        ELSE 0

\* the score returned when nothing is raised
compute_match_score(transaction, attachment) ==
    amount_score(transaction, attachment)
    + name_score(transaction, attachment)
    + date_score(transaction, attachment)

-----------------------------------------------------------------------------
(* Records.  A transaction is a dict with the keys id, amount, date,       *)
(* reference, contact; an attachment is a dict with id and a data payload  *)
(* whose keys are flattened into the record.                               *)

Tx(id, amount, date, reference, contact) ==
    [id |-> id, amount |-> amount, date |-> date, reference |-> reference,
     contact |-> contact]

Att(id, total_amount, due_date, invoicing_date, reference, issuer, recipient, supplier) ==
    [id |-> id, total_amount |-> total_amount, due_date |-> due_date,
     invoicing_date |-> invoicing_date, reference |-> reference,
     issuer |-> issuer, recipient |-> recipient, supplier |-> supplier]

Date(y, m, d) == Some([iso |-> TRUE, y |-> y, m |-> m, d |-> d])
\* a text such as "01/03/2024": the numbers are there, the layout is not
SlashDate(y, m, d) == Some([iso |-> FALSE, y |-> y, m |-> m, d |-> d])

-----------------------------------------------------------------------------
(* find_attachment, match.py:119-163 *)

\* `attachment["id"] in used_attachment_ids`
Claimed(id, used) == id \in used

\* a tie-break that lets the later candidate win
BetterOrEqual(score, highest_score) == score >= highest_score

\* `score > highest_score`
Better(score, highest_score) == score > highest_score

\* a threshold that is one too low
ConfidentFromThree(highest_score) == highest_score >= Threshold - 1

\* a threshold that is strict
ConfidentAboveFour(highest_score) == highest_score > Threshold

\* `highest_score >= 4`
Confident(highest_score) == highest_score >= Threshold

\* `attachment_ref and attachment_ref == transaction_ref`
SameReference(candidate_ref, anchor_ref) ==
    TruthyStr(candidate_ref) /\ candidate_ref = anchor_ref

\* lines 136-144: the first unclaimed attachment with the transaction's reference
RECURSIVE ref_attachment_scan(_, _, _, _)
ref_attachment_scan(transaction_ref, candidates, k, used) ==
    IF k > Len(candidates) THEN [kind |-> "none", pos |-> 0]
    ELSE IF ~IsSome(candidates[k].id) THEN [kind |-> "KeyError", pos |-> k]
    ELSE IF Claimed(Val(candidates[k].id), used)
         THEN ref_attachment_scan(transaction_ref, candidates, k + 1, used)
    ELSE IF SameReference(normalize_reference(candidates[k].reference), transaction_ref)
         THEN [kind |-> "match", pos |-> k]
    ELSE ref_attachment_scan(transaction_ref, candidates, k + 1, used)

\* lines 147-156: the running best of the heuristic scan; b is
\* [kind, best, highest, scored], best = 0 standing for None
RECURSIVE best_attachment_scan(_, _, _, _, _)
best_attachment_scan(transaction, candidates, k, used, b) ==
    IF k > Len(candidates) THEN b
    ELSE IF ~IsSome(candidates[k].id) THEN [b EXCEPT !.kind = "KeyError"]
    ELSE IF Claimed(Val(candidates[k].id), used)
         THEN best_attachment_scan(transaction, candidates, k + 1, used, b)
    ELSE IF score_raises(transaction, candidates[k]) # "none"
         THEN [b EXCEPT !.kind = score_raises(transaction, candidates[k]),
                        !.scored = b.scored + 1]
    ELSE LET score == compute_match_score(transaction, candidates[k])
         IN  best_attachment_scan(transaction, candidates, k + 1, used,
                 IF Better(score, b.highest)
                 THEN [b EXCEPT !.best = k, !.highest = score, !.scored = b.scored + 1]
                 ELSE [b EXCEPT !.scored = b.scored + 1])

ScanStart == [kind |-> "done", best |-> 0, highest |-> 0, scored |-> 0]

\* the result of a call: kind is "match", "none" or the exception raised; pos is
\* the position of the returned candidate; used is the claimed-id set afterwards;
\* scored counts the calls of compute_match_score
Found(kind, pos, used, scored) ==
    [kind |-> kind, pos |-> pos, used |-> used, scored |-> scored]

find_attachment(transaction, candidates, used) ==
    LET transaction_ref == normalize_reference(transaction.reference)
        p1 == IF TruthyStr(transaction_ref)
              THEN ref_attachment_scan(transaction_ref, candidates, 1, used)
              ELSE [kind |-> "none", pos |-> 0]
        p2 == best_attachment_scan(transaction, candidates, 1, used, ScanStart)
    IN  IF p1.kind = "KeyError" THEN Found("KeyError", 0, used, 0)
        ELSE IF p1.kind = "match"
             THEN Found("match", p1.pos, used \cup {Val(candidates[p1.pos].id)}, 0)
        ELSE IF p2.kind # "done" THEN Found(p2.kind, 0, used, p2.scored)
        ELSE IF p2.best # 0 /\ Confident(p2.highest)
             THEN Found("match", p2.best, used \cup {Val(candidates[p2.best].id)}, p2.scored)
        ELSE Found("none", 0, used, p2.scored)

-----------------------------------------------------------------------------
(* find_transaction, match.py:165-209 *)

\* lines 182-190: the first unclaimed transaction with the attachment's reference
RECURSIVE ref_transaction_scan(_, _, _, _)
ref_transaction_scan(attachment_ref, candidates, k, used) ==
    IF k > Len(candidates) THEN [kind |-> "none", pos |-> 0]
    ELSE IF ~IsSome(candidates[k].id) THEN [kind |-> "KeyError", pos |-> k]
    ELSE IF Claimed(Val(candidates[k].id), used)
         THEN ref_transaction_scan(attachment_ref, candidates, k + 1, used)
    ELSE IF SameReference(normalize_reference(candidates[k].reference), attachment_ref)
         THEN [kind |-> "match", pos |-> k]
    ELSE ref_transaction_scan(attachment_ref, candidates, k + 1, used)

\* lines 193-202
RECURSIVE best_transaction_scan(_, _, _, _, _)
best_transaction_scan(attachment, candidates, k, used, b) ==
    IF k > Len(candidates) THEN b
    ELSE IF ~IsSome(candidates[k].id) THEN [b EXCEPT !.kind = "KeyError"]
    ELSE IF Claimed(Val(candidates[k].id), used)
         THEN best_transaction_scan(attachment, candidates, k + 1, used, b)
    ELSE IF score_raises(candidates[k], attachment) # "none"
         THEN [b EXCEPT !.kind = score_raises(candidates[k], attachment),
                        !.scored = b.scored + 1]
    ELSE LET score == compute_match_score(candidates[k], attachment)
         IN  best_transaction_scan(attachment, candidates, k + 1, used,
                 IF Better(score, b.highest)
                 THEN [b EXCEPT !.best = k, !.highest = score, !.scored = b.scored + 1]
                 ELSE [b EXCEPT !.scored = b.scored + 1])

find_transaction(attachment, candidates, used) ==
    LET attachment_ref == normalize_reference(attachment.reference)
        p1 == IF TruthyStr(attachment_ref)
              THEN ref_transaction_scan(attachment_ref, candidates, 1, used)
              ELSE [kind |-> "none", pos |-> 0]
        p2 == best_transaction_scan(attachment, candidates, 1, used, ScanStart)
    IN  IF p1.kind = "KeyError" THEN Found("KeyError", 0, used, 0)
        ELSE IF p1.kind = "match"
             THEN Found("match", p1.pos, used \cup {Val(candidates[p1.pos].id)}, 0)
        ELSE IF p2.kind # "done" THEN Found(p2.kind, 0, used, p2.scored)
        ELSE IF p2.best # 0 /\ Confident(p2.highest)
             THEN Found("match", p2.best, used \cup {Val(candidates[p2.best].id)}, p2.scored)
        ELSE Found("none", 0, used, p2.scored)

-----------------------------------------------------------------------------
(* The batch loop, match.py:224-236 and llm_inference_app.py:62-73 *)

\* a removal that drops the head of the list, whatever was matched
remove_head(list, x) == Tail(list)

\* list.remove(x): drops the first element equal to x
remove(list, x) ==
    LET i == Min({j \in 1..Len(list) : list[j] = x})
    IN  SubSeq(list, 1, i - 1) \o SubSeq(list, i + 1, Len(list))

\* the state of the loop: kind is "ok" or the exception that ended it, links
\* are the <<transaction position, attachment id>> of the pairs made
Loop(kind, matched, unmatched, pool, used, links) ==
    [kind |-> kind, matched_pairs |-> matched, unmatched_tx |-> unmatched,
     unmatched_att |-> pool, used |-> used, links |-> links]

\* a loop that searches the whole attachment list with a fresh registry for
\* every transaction
RECURSIVE match_loop_whole_list(_, _, _)
match_loop_whole_list(txs, k, l) ==
    IF k > Len(txs) THEN l
    ELSE LET att == find_attachment(txs[k], l.unmatched_att, {})
         IN  IF att.kind = "match"
             THEN match_loop_whole_list(txs, k + 1,
                      Loop("ok",
                           Append(l.matched_pairs, <<txs[k], l.unmatched_att[att.pos]>>),
                           l.unmatched_tx,
                           l.unmatched_att,
                           l.used \cup att.used,
                           l.links \cup {<<k, Val(l.unmatched_att[att.pos].id)>>}))
             ELSE IF att.kind = "none"
             THEN match_loop_whole_list(txs, k + 1,
                      [l EXCEPT !.unmatched_tx = Append(l.unmatched_tx, txs[k])])
             ELSE [l EXCEPT !.kind = att.kind]

RECURSIVE match_loop(_, _, _)
match_loop(txs, k, l) ==
    IF k > Len(txs) THEN l
    ELSE LET att == find_attachment(txs[k], l.unmatched_att, l.used)
         IN  IF att.kind = "match"
             THEN match_loop(txs, k + 1,
                      Loop("ok",
                           Append(l.matched_pairs, <<txs[k], l.unmatched_att[att.pos]>>),
                           l.unmatched_tx,
                           remove(l.unmatched_att, l.unmatched_att[att.pos]),
                           att.used,
                           l.links \cup {<<k, Val(l.unmatched_att[att.pos].id)>>}))
             ELSE IF att.kind = "none"
             THEN match_loop(txs, k + 1,
                      [l EXCEPT !.unmatched_tx = Append(l.unmatched_tx, txs[k])])
             ELSE [l EXCEPT !.kind = att.kind]

\* the loop of one run over the copied attachment list, from the given registry
batch(txs, atts, used) == match_loop(txs, 1, Loop("ok", <<>>, <<>>, atts, used, {}))

\* the lookups tx['id'] and att['id'] made when the result is shown
\* (match.py:240-247, llm_inference_app.py:87-146)
show_raises(l) ==
    \/ \E i \in 1..Len(l.matched_pairs) : ~IsSome(l.matched_pairs[i][1].id)
    \/ \E i \in 1..Len(l.unmatched_tx) : ~IsSome(l.unmatched_tx[i].id)
    \/ \E i \in 1..Len(l.unmatched_att) : ~IsSome(l.unmatched_att[i].id)

-----------------------------------------------------------------------------
(* Inputs.  Names are over the letters a, b, c, z; amounts 4 and 5 are     *)
(* within epsilon of each other.  The record at position p of a list has   *)
(* the identifier p, so identifiers are unique within a list.              *)

CoreTx(p) ==
    { Tx(Some(p), Some(-4), Date(2024, 3, 1), Some(<<"R", "F", " ", "0", "1">>), Some(<<"a", "b">>)),
      Tx(Some(p), Some(4), Date(2024, 3, 1), Nothing, Nothing),
      Tx(Some(p), Some(4), Date(2024, 4, 20), Some(<<"R", "F">>), Some(<<"A", "B", "C">>)) }

EdgeTx(p) ==
    { Tx(Some(p), Some(9), Nothing, Some(<<"2">>), Some(<<"z">>)),
      Tx(Some(p), Nothing, Date(2024, 3, 1), Some(<<"1">>), Some(<<"a", "b">>)),
      Tx(Some(p), Some(4), SlashDate(2024, 3, 1), Some(<<"0", "1">>), Some(<<"a", "b">>)),
      Tx(Nothing, Some(4), Date(2024, 3, 1), Nothing, Some(<<"a", "b">>)) }

CoreAtt(p) ==
    { Att(Some(p), Some(4), Date(2024, 2, 27), Nothing, Some(<<"0", " ", "1">>),
          Some(<<"A", "b", "c">>), Nothing, Nothing),
      Att(Some(p), Some(5), Nothing, Date(2024, 4, 25), Nothing,
          Nothing, Some(<<"a", "b">>), Nothing),
      Att(Nothing, Some(4), Date(2024, 3, 1), Nothing, Some(<<"1">>),
          Some(<<"a", "b">>), Nothing, Nothing) }

EdgeAtt(p) ==
    { Att(Some(p), Some(9), Date(2024, 3, 9), Date(2024, 3, 10), Some(<<"R", "F">>),
          Some(<<>>), Nothing, Some(<<"c">>)),
      Att(Some(p), Nothing, Date(2024, 3, 1), Nothing, Some(<<"2">>),
          Some(<<"z">>), Nothing, Nothing),
      Att(Some(p), Some(4), Date(2024, 2, 30), Nothing, Nothing,
          Some(<<"a", "b">>), Nothing, Nothing) }

TxChoices(p) == CoreTx(p) \cup EdgeTx(p)
AttChoices(p) == CoreAtt(p) \cup EdgeAtt(p)

\* the lists of n records whose p-th record is one of Choices(p)
RECURSIVE ListsOfLen(_, _)
ListsOfLen(Choices(_), n) ==
    IF n = 0 THEN {<<>>}
    ELSE {Append(l, r) : l \in ListsOfLen(Choices, n - 1), r \in Choices(n)}

TxLists == UNION {ListsOfLen(TxChoices, n) : n \in 0..MaxTx}
AttLists == UNION {ListsOfLen(AttChoices, n) : n \in 0..MaxAtt}
CoreTxLists == UNION {ListsOfLen(CoreTx, n) : n \in 0..MaxTx}
CoreAttLists == UNION {ListsOfLen(CoreAtt, n) : n \in 0..MaxAtt}

-----------------------------------------------------------------------------
(* The state machine *)

NoCall == [fn |-> "none", anchor |-> 0, kind |-> "none", pos |-> 0, scored |-> 0,
           used_before |-> {}]
NoProbe == [fn |-> "none"]
EmptyRegistry == [att |-> {}, tx |-> {}]

InitOver(txLists, attLists) ==
    /\ transactions \in txLists
    /\ attachments \in attLists
    /\ used_attachment_ids = {}
    /\ used_transaction_ids = {}
    /\ matched_pairs = <<>>
    /\ unmatched_tx = <<>>
    /\ unmatched_att = <<>>
    /\ outcome = "idle"
    /\ entry = "none"
    /\ scan_used = EmptyRegistry
    /\ call = NoCall
    /\ matches = {}
    /\ probe = NoProbe

\* what a batch run leaves: its lists when it yields them, nothing when it raised
\* while matching (the lists are locals of the raising frame; the handler raises
\* before lines 76-78)
Yield(l, stored) ==
    /\ matched_pairs' = IF stored THEN l.matched_pairs ELSE <<>>
    /\ unmatched_tx' = IF stored THEN l.unmatched_tx ELSE <<>>
    /\ unmatched_att' = IF stored THEN l.unmatched_att ELSE <<>>

\* run_matching, match.py:214-261: no reset of the registry; the lists are
\* printed and the question loop is left at the first prompt
RunMatching(history) ==
    \E l \in {batch(transactions, attachments, used_attachment_ids)} :
        /\ entry' = "run_matching"
        /\ scan_used' = [att |-> used_attachment_ids, tx |-> used_transaction_ids]
        /\ used_attachment_ids' = l.used
        /\ outcome' = IF l.kind # "ok" THEN l.kind
                      ELSE IF show_raises(l) THEN "KeyError" ELSE "ok"
        /\ Yield(l, l.kind = "ok" /\ ~show_raises(l))
        /\ matches' = IF history THEN matches \cup l.links ELSE matches
        /\ call' = NoCall
        /\ UNCHANGED <<transactions, attachments, used_transaction_ids, probe>>

\* the "Run Matching" handler, llm_inference_app.py:57-78, and the display of
\* the stored lists that follows in the same script run (lines 83-150)
AppRunMatching(history) ==
    \E l \in {batch(transactions, attachments, {})} :
        /\ entry' = "app"
        /\ scan_used' = EmptyRegistry
        /\ used_attachment_ids' = l.used
        /\ used_transaction_ids' = {}
        /\ outcome' = IF l.kind # "ok" THEN l.kind
                      ELSE IF l.matched_pairs # <<>> /\ show_raises(l) THEN "KeyError"
                      ELSE "ok"
        /\ Yield(l, l.kind = "ok")
        /\ matches' = IF history THEN l.links ELSE matches
        /\ call' = NoCall
        /\ UNCHANGED <<transactions, attachments, probe>>

\* a direct call find_attachment(transactions[i], attachments)
FindAttachmentCall(i, history) ==
    \E r \in {find_attachment(transactions[i], attachments, used_attachment_ids)} :
        /\ entry' = "find_attachment"
        /\ outcome' = IF r.kind \in {"match", "none"} THEN "ok" ELSE r.kind
        /\ used_attachment_ids' = r.used
        /\ call' = [fn |-> "find_attachment", anchor |-> i, kind |-> r.kind,
                    pos |-> r.pos, scored |-> r.scored,
                    used_before |-> used_attachment_ids]
        /\ matches' = IF history /\ r.kind = "match" THEN matches \cup {<<i, r.pos>>}
                       ELSE matches
        /\ UNCHANGED <<transactions, attachments, used_transaction_ids, matched_pairs,
                       unmatched_tx, unmatched_att, scan_used, probe>>

\* a direct call find_transaction(attachments[j], transactions)
FindTransactionCall(j, history) ==
    \E r \in {find_transaction(attachments[j], transactions, used_transaction_ids)} :
        /\ entry' = "find_transaction"
        /\ outcome' = IF r.kind \in {"match", "none"} THEN "ok" ELSE r.kind
        /\ used_transaction_ids' = r.used
        /\ call' = [fn |-> "find_transaction", anchor |-> j, kind |-> r.kind,
                    pos |-> r.pos, scored |-> r.scored,
                    used_before |-> used_transaction_ids]
        /\ matches' = IF history /\ r.kind = "match" THEN matches \cup {<<r.pos, j>>}
                       ELSE matches
        /\ UNCHANGED <<transactions, attachments, used_attachment_ids, matched_pairs,
                       unmatched_tx, unmatched_att, scan_used, probe>>

\* the engine as a whole: batch runs and direct calls of the two entry points
Init == InitOver(CoreTxLists, CoreAttLists)
Next ==
    \/ RunMatching(FALSE)
    \/ AppRunMatching(FALSE)
    \/ \E i \in 1..Len(transactions) : FindAttachmentCall(i, FALSE)
    \/ \E j \in 1..Len(attachments) : FindTransactionCall(j, FALSE)
Spec == Init /\ [][Next]_vars

\* the same engine, keeping in `matches` every pair returned since the registry
\* was last cleared
NextCalls ==
    \/ RunMatching(TRUE)
    \/ AppRunMatching(TRUE)
    \/ \E i \in 1..Len(transactions) : FindAttachmentCall(i, TRUE)
    \/ \E j \in 1..Len(attachments) : FindTransactionCall(j, TRUE)
SpecCalls == Init /\ [][NextCalls]_vars

\* batch runs alone, over the wider inputs
InitBatch == InitOver(TxLists, AttLists)
NextBatch == RunMatching(FALSE) \/ AppRunMatching(FALSE)
SpecBatch == InitBatch /\ [][NextBatch]_vars

-----------------------------------------------------------------------------
(* The pure functions, applied to inputs drawn from bounded sets *)

\* everything of the engine at rest, for the specifications of pure functions
EngineIdle ==
    /\ transactions = <<>>
    /\ attachments = <<>>
    /\ used_attachment_ids = {}
    /\ used_transaction_ids = {}
    /\ matched_pairs = <<>>
    /\ unmatched_tx = <<>>
    /\ unmatched_att = <<>>
    /\ outcome = "idle"
    /\ entry = "none"
    /\ scan_used = EmptyRegistry
    /\ call = NoCall
    /\ matches = {}

EngineUnchanged ==
    UNCHANGED <<transactions, attachments, used_attachment_ids, used_transaction_ids,
                matched_pairs, unmatched_tx, unmatched_att, outcome, entry, scan_used,
                call, matches>>

RefAlphabet == {" ", "R", "F", "0", "7"}

RECURSIVE StringsOfLen(_)
StringsOfLen(n) ==
    IF n = 0 THEN {<<>>}
    ELSE {Append(s, c) : s \in StringsOfLen(n - 1), c \in RefAlphabet}

RefInputs == {Nothing} \cup {Some(s) : s \in UNION {StringsOfLen(n) : n \in 0..MaxRefLen}}

InitNorm ==
    /\ EngineIdle
    /\ \E x \in RefInputs :
           probe = [fn |-> "normalize_reference", stage |-> 0, x |-> x,
                    once |-> Nothing, twice |-> Nothing]

\* y = normalize_reference(x)
NormalizeOnce ==
    /\ probe.fn = "normalize_reference" /\ probe.stage = 0
    /\ probe' = [probe EXCEPT !.stage = 1, !.once = normalize_reference(probe.x)]
    /\ EngineUnchanged

\* z = normalize_reference(y)
NormalizeAgain ==
    /\ probe.fn = "normalize_reference" /\ probe.stage = 1
    /\ probe' = [probe EXCEPT !.stage = 2, !.twice = normalize_reference(probe.once)]
    /\ EngineUnchanged

NextNorm == NormalizeOnce \/ NormalizeAgain
SpecNorm == InitNorm /\ [][NextNorm]_vars

ScoreTx ==
    { Tx(Some(1), Some(a), d, Nothing, c) :
        a \in {-4, 0, 4},
        d \in {Nothing, Date(2024, 3, 1)},
        c \in {Nothing, Some(<<>>), Some(<<"a", "b">>), Some(<<"z">>)} }

ScoreAtt ==
    { Att(Some(1), t, due, inv, Nothing, i, r, u) :
        t \in {Nothing, Some(-4), Some(0), Some(4), Some(5), Some(6)},
        due \in {Nothing, Date(2024, 2, 23), Date(2024, 3, 9)},
        inv \in {Nothing, Date(2024, 3, 8)},
        i \in {Nothing, Some(<<>>), Some(<<"A", "b", "c">>)},
        r \in {Nothing, Some(<<"z">>)},
        u \in {Nothing, Some(<<"b">>)} }

InitScore ==
    /\ EngineIdle
    /\ \E t \in ScoreTx, a \in ScoreAtt :
           probe = [fn |-> "compute_match_score", stage |-> 0, tx |-> t, att |-> a,
                    score |-> 0]

\* score = compute_match_score(tx, att)
ComputeScore ==
    /\ probe.fn = "compute_match_score" /\ probe.stage = 0
    /\ score_raises(probe.tx, probe.att) = "none"
    /\ probe' = [probe EXCEPT !.stage = 1,
                              !.score = compute_match_score(probe.tx, probe.att)]
    /\ EngineUnchanged

NextScore == ComputeScore
SpecScore == InitScore /\ [][NextScore]_vars

-----------------------------------------------------------------------------
(* Claims *)

IsBatch == entry \in {"run_matching", "app"}

\* C6 (under SpecNorm): normalize_reference is idempotent: normalizing the
\* result of a normalization gives that result again, also when the result is
\* the empty string or None.
C6_NormalizeIdempotent ==
    (probe.fn = "normalize_reference" /\ probe.stage = 2) => probe.twice = probe.once

\* the three contributions as C9 words them
ClaimedAmountPoints(tx, att) ==
    IF /\ IsSome(att.total_amount)
       /\ Abs(Val(att.total_amount) - Abs(Val(tx.amount))) < Epsilon
    THEN AmountPoints ELSE 0

FirstNonEmpty(names) ==
    IF \E k \in 1..Len(names) : TruthyStr(names[k])
    THEN names[Min({k \in 1..Len(names) : TruthyStr(names[k])})]
    ELSE Nothing

ClaimedNamePoints(tx, att) ==
    LET party == FirstNonEmpty(<<att.issuer, att.recipient, att.supplier>>)
    IN  IF /\ TruthyStr(tx.contact) /\ TruthyStr(party)
           /\ \/ Contains(lower(Val(tx.contact)), lower(Val(party)))
              \/ Contains(lower(Val(party)), lower(Val(tx.contact)))
        THEN NamePoints ELSE 0

ClaimedDatePoints(tx, att) ==
    LET dates == {d \in {att.due_date, att.invoicing_date} : IsSome(d)}
    IN  IF /\ IsSome(tx.date) /\ dates # {}
           /\ \E d \in dates :
                  Abs(Val(parse_date(tx.date)) - Val(parse_date(d))) <= DateWindow
        THEN DatePoints ELSE 0

\* C9 (under SpecScore): compute_match_score returns the sum of the amount (+3),
\* counterparty (+2) and date (+1) contributions, each awarded exactly when its
\* rule holds (the amount rule for every present total, zero included), so the
\* result is in 0..6.
C9_ScoreIsSumOfRules ==
    (probe.fn = "compute_match_score" /\ probe.stage = 1) =>
        /\ probe.score \in 0..6
        /\ probe.score = ClaimedAmountPoints(probe.tx, probe.att)
                         + ClaimedNamePoints(probe.tx, probe.att)
                         + ClaimedDatePoints(probe.tx, probe.att)

\* C3 (under SpecCalls): between two resets, whatever the order of the calls of
\* find_attachment and find_transaction, no transaction and no attachment is a
\* member of two different returned matches.
C3_NoDuplicateClaims ==
    \A p \in matches, q \in matches :
        p # q => (p[1] # q[1] /\ p[2] # q[2])

\* C2 (under SpecBatch): every batch run, from either entry point, begins
\* scanning with both claimed-id sets empty, so its result is the one a fresh
\* registry gives, however many runs came before.
C2_RunStartsWithEmptyRegistry ==
    IsBatch =>
        /\ scan_used = EmptyRegistry
        /\ outcome = "ok" =>
               /\ matched_pairs = batch(transactions, attachments, {}).matched_pairs
               /\ unmatched_tx = batch(transactions, attachments, {}).unmatched_tx
               /\ unmatched_att = batch(transactions, attachments, {}).unmatched_att

\* a batch run left its lists: it ended normally, or the handler stored them and
\* raised while showing them
Yielded == IsBatch /\ (outcome = "ok" \/ (entry = "app" /\ matched_pairs # <<>>))

MatchedTx == [i \in 1..Len(matched_pairs) |-> matched_pairs[i][1]]
MatchedAtt == [i \in 1..Len(matched_pairs) |-> matched_pairs[i][2]]

Count(list, x) == Cardinality({i \in 1..Len(list) : list[i] = x})

\* the two lists hold the same records, each as many times
SameRecords(a, b) ==
    /\ Len(a) = Len(b)
    /\ \A i \in 1..Len(a) : Count(a, a[i]) = Count(b, a[i])

\* no identifier occurs in both lists
NoSharedId(a, b) ==
    \A i \in 1..Len(a), j \in 1..Len(b) : IsSome(a[i].id) => a[i].id # b[j].id

\* C1 (under SpecBatch): in the result of a batch run no transaction identifier
\* occurs in two matched pairs and no attachment identifier occurs in two
\* matched pairs (the identifiers of an input list are unique).
C1_NoIdInTwoPairs ==
    IsBatch =>
        \A i \in 1..Len(matched_pairs), j \in 1..Len(matched_pairs) :
            i # j =>
                /\ IsSome(MatchedTx[i].id) => MatchedTx[i].id # MatchedTx[j].id
                /\ IsSome(MatchedAtt[i].id) => MatchedAtt[i].id # MatchedAtt[j].id

\* witness of C1: a run that made two pairs
C1_TwoPairsMade == IsBatch /\ outcome = "ok" /\ Len(matched_pairs) >= 2

\* C4 (under SpecBatch): after a batch run the matched and the unmatched
\* transactions together are exactly the input transactions, none in both, and
\* the same for the attachments.
C4_Partition ==
    Yielded =>
        /\ SameRecords(MatchedTx \o unmatched_tx, transactions)
        /\ NoSharedId(MatchedTx, unmatched_tx)
        /\ SameRecords(MatchedAtt \o unmatched_att, attachments)
        /\ NoSharedId(MatchedAtt, unmatched_att)

\* witness of C4: a run that left a pair, an unmatched transaction and an
\* unmatched attachment
C4_AllThreeListsFilled ==
    /\ IsBatch /\ outcome = "ok"
    /\ matched_pairs # <<>> /\ unmatched_tx # <<>> /\ unmatched_att # <<>>

\* the normalized references are both non-empty and equal, or the score is at
\* least 4
Justified(tx, att) ==
    \/ /\ TruthyStr(normalize_reference(tx.reference))
       /\ normalize_reference(tx.reference) = normalize_reference(att.reference)
    \/ /\ score_raises(tx, att) = "none"
       /\ compute_match_score(tx, att) >= Threshold

\* the pair a direct call returned
CallTx == IF call.fn = "find_attachment" THEN transactions[call.anchor]
          ELSE transactions[call.pos]
CallAtt == IF call.fn = "find_attachment" THEN attachments[call.pos]
           ELSE attachments[call.anchor]

\* C5 (under Spec): every matched pair of a batch run, and every pair returned
\* by find_attachment or find_transaction, has equal non-empty normalized
\* references or a score of at least 4.
C5_MatchesJustified ==
    /\ \A i \in 1..Len(matched_pairs) : Justified(MatchedTx[i], MatchedAtt[i])
    /\ call.kind = "match" => Justified(CallTx, CallAtt)

\* witness of C5: a batch run made a pair and find_transaction then returned a
\* pair on its score, the references not being equal
C5_PairsByBothRoutes ==
    /\ matched_pairs # <<>>
    /\ call.fn = "find_transaction" /\ call.kind = "match" /\ call.scored > 0

Max(S) == CHOOSE x \in S : \A y \in S : x >= y

\* the two-phase policy as C8 words it, for a call that returned c: the anchor's
\* normalized reference, the candidates in their order, the claimed ids before
\* and after the call, and the score of the candidate at each position
FollowsPolicy(anchor_ref, candidates, before, after, Score(_), c) ==
    LET Unclaimed == {k \in 1..Len(candidates) :
                          ~(IsSome(candidates[k].id) /\ Val(candidates[k].id) \in before)}
        RefHits == {k \in Unclaimed :
                        /\ TruthyStr(anchor_ref)
                        /\ normalize_reference(candidates[k].reference) = anchor_ref}
        Highest == Max({Score(k) : k \in Unclaimed} \cup {0})
        Earliest == Min({k \in Unclaimed : Score(k) = Highest})
    IN  IF RefHits # {}
        THEN /\ c.kind = "match" /\ c.pos = Min(RefHits) /\ c.scored = 0
             /\ after = before \cup {Val(candidates[Min(RefHits)].id)}
        ELSE IF Unclaimed # {} /\ Highest >= 4
        THEN /\ c.kind = "match" /\ c.pos = Earliest
             /\ after = before \cup {Val(candidates[Earliest].id)}
        ELSE c.kind = "none" /\ after = before

\* C8 (under Spec): a call of find_attachment or find_transaction that returns
\* follows the two-phase policy over the candidates in their order: the first
\* unclaimed candidate with the anchor's non-empty normalized reference, claimed
\* and returned with nothing scored; otherwise the earliest unclaimed candidate
\* with the highest score, claimed and returned when that score is at least 4;
\* otherwise nothing returned and nothing claimed.
C8_TwoPhasePolicy ==
    /\ (call.fn = "find_attachment" /\ call.kind \in {"match", "none"}) =>
           LET Score(k) == compute_match_score(transactions[call.anchor], attachments[k])
           IN  FollowsPolicy(normalize_reference(transactions[call.anchor].reference),
                             attachments, call.used_before, used_attachment_ids,
                             Score, call)
    /\ (call.fn = "find_transaction" /\ call.kind \in {"match", "none"}) =>
           LET Score(k) == compute_match_score(transactions[k], attachments[call.anchor])
           IN  FollowsPolicy(normalize_reference(attachments[call.anchor].reference),
                             transactions, call.used_before, used_transaction_ids,
                             Score, call)

\* witness of C8: find_attachment returned on the score with a later unclaimed
\* candidate scoring as much as the returned one
C8_TieGoesToEarlier ==
    /\ call.fn = "find_attachment" /\ call.kind = "match" /\ call.scored >= 2
    /\ \E k \in (call.pos + 1)..Len(attachments) :
           /\ IsSome(attachments[k].id)
           /\ Val(attachments[k].id) \notin call.used_before
           /\ compute_match_score(transactions[call.anchor], attachments[k])
                  = compute_match_score(transactions[call.anchor], attachments[call.pos])

\* a second witness of C8: find_transaction returned on the reference, nothing scored
C8_ReferenceHitUnscored ==
    /\ call.fn = "find_transaction" /\ call.kind = "match" /\ call.scored = 0
    /\ call.used_before # {}

\* the malformed records C7 lists
MalformedTx(t) ==
    ~IsSome(t.id) \/ ~IsSome(t.amount) \/ parse_date_raises(t.date)
MalformedAtt(a) ==
    ~IsSome(a.id) \/ parse_date_raises(a.due_date) \/ parse_date_raises(a.invoicing_date)
AnyMalformed ==
    \/ \E i \in 1..Len(transactions) : MalformedTx(transactions[i])
    \/ \E j \in 1..Len(attachments) : MalformedAtt(attachments[j])

\* C7 (under SpecBatch): a batch run over an input with a malformed record (a
\* transaction without identifier or amount, an attachment without identifier,
\* a date that does not parse) ends in a raised exception and leaves no lists;
\* a run over any other input ends normally with complete lists.
C7_MalformedAbortsRun ==
    IsBatch =>
        IF AnyMalformed
        THEN /\ outcome \in {"KeyError", "ValueError"}
             /\ matched_pairs = <<>> /\ unmatched_tx = <<>> /\ unmatched_att = <<>>
        ELSE /\ outcome = "ok"
             /\ SameRecords(MatchedTx \o unmatched_tx, transactions)
             /\ SameRecords(MatchedAtt \o unmatched_att, attachments)

\* transaction i qualifies for attachment a
Qualifies(i, a) == Justified(transactions[i], attachments[a])

\* transactions i < j both qualify for attachment a and for no other, and no
\* transaction before i qualifies for a
Contend(i, j, a) ==
    /\ i < j
    /\ Qualifies(i, a) /\ Qualifies(j, a)
    /\ \A b \in 1..Len(attachments) : b # a => ~Qualifies(i, b) /\ ~Qualifies(j, b)
    /\ \A h \in 1..(i - 1) : ~Qualifies(h, a)

InPairs(i, a) ==
    \E p \in 1..Len(matched_pairs) :
        matched_pairs[p] = <<transactions[i], attachments[a]>>
InUnmatchedTx(j) ==
    \E p \in 1..Len(unmatched_tx) : unmatched_tx[p] = transactions[j]

\* C10 (under SpecBatch): batch matching is greedy in input order: when an
\* earlier transaction T1 and a later T2 both qualify for the same attachment A
\* and for no other (T1 being the first to qualify for A), the run pairs T1
\* with A and leaves T2 unmatched, whatever the two scores.
C10_EarlierTransactionWins ==
    (IsBatch /\ outcome = "ok") =>
        \A i \in 1..Len(transactions), j \in 1..Len(transactions), a \in 1..Len(attachments) :
            Contend(i, j, a) => InPairs(i, a) /\ InUnmatchedTx(j)

\* the same, for the runs that began scanning with an empty registry
C10_EarlierWinsFromEmptyRegistry ==
    scan_used = EmptyRegistry => C10_EarlierTransactionWins

\* such a run in which the later transaction scores higher
C10_LaterScoresHigher ==
    /\ IsBatch /\ outcome = "ok" /\ scan_used = EmptyRegistry
    /\ \E i \in 1..Len(transactions), j \in 1..Len(transactions), a \in 1..Len(attachments) :
           /\ Contend(i, j, a)
           /\ score_raises(transactions[i], attachments[a]) = "none"
           /\ score_raises(transactions[j], attachments[a]) = "none"
           /\ compute_match_score(transactions[j], attachments[a])
                  > compute_match_score(transactions[i], attachments[a])

\* a leftover pair that a reference or the score would still match
Matchable(tx, att) ==
    \/ /\ TruthyStr(normalize_reference(tx.reference))
       /\ TruthyStr(normalize_reference(att.reference))
       /\ normalize_reference(tx.reference) = normalize_reference(att.reference)
    \/ score_raises(tx, att) # "none"
    \/ compute_match_score(tx, att) >= 4

\* C11 (under SpecBatch): a batch run that starts with an empty registry leaves
\* no matchable leftovers: for every transaction of the unmatched-transactions
\* list and every attachment of the unmatched-attachments list, the normalized
\* references are not both non-empty and equal, and compute_match_score of the
\* two is a number below 4.
C11_NoMatchableLeftovers ==
    (IsBatch /\ scan_used = EmptyRegistry) =>
        \A i \in 1..Len(unmatched_tx), j \in 1..Len(unmatched_att) :
            ~Matchable(unmatched_tx[i], unmatched_att[j])

\* such a run that made a pair and left a transaction and an attachment that
\* score above zero together
C11_LeftoversScoreBelowFour ==
    /\ IsBatch /\ scan_used = EmptyRegistry /\ outcome = "ok"
    /\ matched_pairs # <<>>
    /\ \E i \in 1..Len(unmatched_tx), j \in 1..Len(unmatched_att) :
           /\ score_raises(unmatched_tx[i], unmatched_att[j]) = "none"
           /\ compute_match_score(unmatched_tx[i], unmatched_att[j]) > 0

====
